---- MODULE Spec2Model ----
(***************************************************************************)
(* DaVinci Resolve MCP adapter: the ResolveAPI connector object            *)
(* (resolve_api.py) and the resources and tools of the MCP server          *)
(* (server.py), run against a model of the host application's scripting    *)
(* API as the two files use it.                                            *)
(***************************************************************************)
EXTENDS Integers, Sequences, FiniteSets, TLC

\* Python's None; every handle is None or the name of a host object.
NULL == "None"

\* ------------------------------------------------------------------ bounds
\* Most timelines a project holds in the explored runs.
MaxTimelines == 2
\* Most clips a media pool folder holds in the explored runs.
MaxClips == 2
\* Most sub folders a media pool holds in the explored runs.
MaxFolders == 1
\* Most nodes the Fusion composition holds in the explored runs.
MaxNodes == 2
\* Most objects (timelines, clips, folders, nodes, compositions) the host holds
\* in the explored runs.
MaxObjects == 3
\* Most calls either of two compared runs makes before the compared call.
MaxCalls == 2

ProjNames == {"p1", "p2"}
TLNames == {"t" \o ToString(i) : i \in 1..MaxTimelines}
FolderNames == {"f" \o ToString(i) : i \in 1..MaxFolders}
\* Files of the media storage: the first exists, the second does not.
ValidFiles == {"a.mov"}
FileNames == {"a.mov", "missing.mov"}
NodeTypes == {"Blur", "Merge"}
HandleNames ==
  {"resolve", "fusion", "project_manager", "current_project", "media_storage", "media_pool"}

VARIABLES
  resolve_api,   \* the ResolveAPI object of server.py: its six handles
  host,          \* the host application's state behind the scripting API
  last,          \* the last endpoint invocation: what was called, what came back
  twin,          \* a second run of the server from the same start, for comparing
                 \* two histories of calls; idle where one run is looked at
  process        \* the Python process the server runs in: platform.system(),
                 \* sys.path, the directories that hold the vendor's scripting
                 \* module, and what scriptapp("Resolve") returns

vars == <<resolve_api, host, last, twin, process>>

\* ------------------------------------------------------------- sequences
RECURSIVE JoinWith(_, _)
\* sep.join(lines)
JoinWith(sep, lines) ==
  IF lines = <<>> THEN ""
  ELSE IF Len(lines) = 1 THEN lines[1]
  ELSE lines[1] \o sep \o JoinWith(sep, Tail(lines))

Range(s) == {s[i] : i \in DOMAIN s}

\* list[k] of a Python list, whose positions count from 0
At(list, k) == list[k + 1]

\* --------------------------------------------------- host scripting API
\* The vendor's object model as the adapter calls it.  A project handle is the
\* project's name, a media pool handle the name of the project it belongs to, a
\* timeline handle the timeline's name within its project.

TimelineNames(h, p) == [i \in DOMAIN h.timelines[p] |-> h.timelines[p][i].name]

\* ProjectManager.GetCurrentProject()
GetCurrentProject(h) == h.current

\* ProjectManager.CreateProject(name): the new project, opened, or None when a
\* project of that name exists.
CreateProject(h, name) ==
  IF name \in h.projects
  THEN [host |-> h, val |-> NULL]
  ELSE [host |-> [h EXCEPT !.projects = @ \cup {name}, !.current = name], val |-> name]

\* ProjectManager.LoadProject(name): the project, opened, or None when there is
\* no project of that name.
LoadProject(h, name) ==
  IF name \in h.projects
  THEN [host |-> [h EXCEPT !.current = name], val |-> name]
  ELSE [host |-> h, val |-> NULL]

\* Project.GetMediaPool()
GetMediaPool(h, p) == p

\* Project.GetName()
GetName(p) == p

\* Project.GetTimelineCount()
GetTimelineCount(h, p) == Len(h.timelines[p])

\* Project.GetTimelineByIndex(i), 1-based; None outside the range.
GetTimelineByIndex(h, p, i) ==
  IF i \in 1..Len(h.timelines[p]) THEN h.timelines[p][i].name ELSE NULL

\* Project.GetCurrentTimeline()
GetCurrentTimeline(h, p) == h.curTL[p]

\* Project.SetCurrentTimeline(timeline): True and the timeline is current, or
\* False and nothing changed.
SetCurrentTimeline(h, p, tl, ok) ==
  IF ok THEN [host |-> [h EXCEPT !.curTL[p] = tl], val |-> TRUE]
  ELSE [host |-> h, val |-> FALSE]

\* MediaPool.CreateEmptyTimeline(name): the new timeline, or None when the
\* project has a timeline of that name.
CreateEmptyTimeline(h, pool, name) ==
  IF name \in Range(TimelineNames(h, pool))
  THEN [host |-> h, val |-> NULL]
  ELSE [host |-> [h EXCEPT !.timelines[pool] = Append(@, [name |-> name, items |-> 0])],
        val |-> name]

\* MediaPool.CreateTimelineFromClips(name, clips): the new timeline holding one
\* item per clip given, or None when the project has a timeline of that name.
CreateTimelineFromClips(h, pool, name, clips) ==
  IF name \in Range(TimelineNames(h, pool))
  THEN [host |-> h, val |-> NULL]
  ELSE [host |-> [h EXCEPT !.timelines[pool] =
                     Append(@, [name |-> name, items |-> Len(clips)])],
        val |-> name]

\* Folder.GetClips(): the folder's clips keyed by their 1-based position.
GetClips(h, pool) == [i \in 1..h.clips[pool] |-> "clip" \o ToString(i)]

\* Folder.GetSubFolders()
GetSubFolders(h, pool) == h.folders[pool]

\* MediaStorage.AddItemsToMediaPool(paths): the clips made of the paths that
\* exist, added to the current folder of the open project's media pool.
AddItemsToMediaPool(h, paths) ==
  LET good == SelectSeq(paths, LAMBDA f : f \in ValidFiles)
      p == h.current
  IN IF p = NULL \/ good = <<>>
     THEN [host |-> h, val |-> <<>>]
     ELSE [host |-> [h EXCEPT !.clips[p] = @ + Len(good)],
           val |-> [i \in 1..Len(good) |-> "clip" \o ToString(h.clips[p] + i)]]

\* MediaPool.AddSubFolder(parent, name): the new folder, or None when the
\* parent has a folder of that name.
AddSubFolder(h, pool, name) ==
  IF name \in Range(h.folders[pool])
  THEN [host |-> h, val |-> NULL]
  ELSE [host |-> [h EXCEPT !.folders[pool] = Append(@, name)], val |-> name]

\* Resolve.OpenPage(page): True and the page is open, or False and nothing
\* changed.
OpenPage(h, page, ok) ==
  IF ok THEN [host |-> [h EXCEPT !.page = page], val |-> TRUE]
  ELSE [host |-> h, val |-> FALSE]

\* Timeline.GetTrackCount(type): one video track, one audio track.
GetTrackCount(h, p, tl, type) ==
  IF type \in {"video", "audio"} THEN 1 ELSE 0

\* Timeline.GetItemsInTrack(type, index): the items of the video track, one per
\* clip the timeline was made of.
GetItemsInTrack(h, p, tl, type, index) ==
  LET hit == {i \in DOMAIN h.timelines[p] : h.timelines[p][i].name = tl}
      n == IF hit = {} \/ type # "video" \/ index # 1 THEN 0
           ELSE h.timelines[p][CHOOSE i \in hit : TRUE].items
  IN [i \in 1..n |-> <<p, tl, i>>]

\* TimelineItem.AddFusionComp(): the composition ("comp"), None ("none"), or
\* an exception ("raise"), as every Fusion call may end (resolve_api.py:528-540,
\* 552-556 and server.py:592-625, 727-731 guard the others).
AddFusionComp(h, item, outcome) ==
  IF outcome = "comp"
  THEN [host |-> [h EXCEPT !.itemComps = @ \cup {item}], val |-> "comp", exc |-> ""]
  ELSE [host |-> h, val |-> NULL, exc |-> IF outcome = "raise" THEN "RuntimeError" ELSE ""]

\* Composition.AddTool(type): the new node (its 1-based position among the
\* composition's nodes), None for an unknown node type; raises when the host
\* fails (ok = FALSE).
AddTool(h, type, ok) ==
  IF ~ok THEN [host |-> h, val |-> 0, exc |-> "RuntimeError"]
  ELSE IF type \notin NodeTypes THEN [host |-> h, val |-> 0, exc |-> ""]
  ELSE [host |-> [h EXCEPT !.comp.nodes =
                    Append(@, [type |-> type, name |-> "", input |-> 0, params |-> FALSE])],
        val |-> Len(h.comp.nodes) + 1, exc |-> ""]

\* node[key] = value for every given parameter
SetInputs(h, node) == [h EXCEPT !.comp.nodes[node].params = TRUE]

\* node.SetAttrs({"TOOLS_Name": name})
SetAttrs(h, node, name) == [h EXCEPT !.comp.nodes[node].name = name]

\* node.ConnectInput("Input", prev)
ConnectInput(h, node, prev) == [h EXCEPT !.comp.nodes[node].input = prev]

\* ------------------------------------------------------------ ResolveAPI
\* Each method takes the object's fields (api) and the host, and gives the
\* fields and the host after the call, the value returned and the host calls
\* made, in order.

Val(api, h, v, calls) == [api |-> api, host |-> h, val |-> v, calls |-> calls]

\* Python truth of a handle
Truthy(x) == x # NULL

\* ResolveAPI.__init__ before _connect_to_resolve
NoHandles ==
  [resolve |-> NULL, fusion |-> NULL, project_manager |-> NULL,
   current_project |-> NULL, media_storage |-> NULL, media_pool |-> NULL]

\* ResolveAPI._connect_to_resolve, given what scriptapp("Resolve") returned
\* (None when the module could not be imported or the host is not running).
connect_to_resolve(app, h) ==
  IF Truthy(app)
  THEN [NoHandles EXCEPT
          !.resolve = app,
          !.project_manager = "ProjectManager",
          !.current_project = GetCurrentProject(h),
          !.media_storage = "MediaStorage",
          !.fusion = "Fusion",
          !.media_pool = IF Truthy(GetCurrentProject(h))
                         THEN GetMediaPool(h, GetCurrentProject(h)) ELSE NULL]
  ELSE NoHandles

\* platform.system(): the three systems the connector knows, and another.
Systems == {"Windows", "Darwin", "Linux", "FreeBSD"}

\* script_api_path of each system (PROGRAMDATA at its default) and, on Darwin,
\* user_script_api_path.
ScriptApiPath ==
  [Windows |-> "C:/ProgramData/Blackmagic Design/DaVinci Resolve/Support/Developer/Scripting/Modules",
   Darwin |-> "/Library/Application Support/Blackmagic Design/DaVinci Resolve/Developer/Scripting/Modules",
   Linux |-> "/opt/resolve/Developer/Scripting/Modules"]
UserScriptApiPath ==
  "~/Library/Application Support/Blackmagic Design/DaVinci Resolve/Developer/Scripting/Modules"

\* A directory of the search path that is none of them, such as one named by
\* PYTHONPATH.
SitePath == "site-packages"

\* The directories the connector names on a system
ModuleDirectories(system) ==
  IF system \notin DOMAIN ScriptApiPath THEN {}
  ELSE IF system = "Darwin" THEN {ScriptApiPath["Darwin"], UserScriptApiPath}
  ELSE {ScriptApiPath[system]}

\* sys.path.append(path) without the test before it.
AppendAlways(sys_path, path) == Append(sys_path, path)

\* if path not in sys.path: sys.path.append(path)
AppendOnce(sys_path, path) ==
  IF path \in Range(sys_path) THEN sys_path ELSE Append(sys_path, path)

\* import DaVinciResolveScript: found when a directory of sys.path holds it;
\* ImportError otherwise.
CanImport(sys_path, installed) == \E i \in DOMAIN sys_path : sys_path[i] \in installed

\* ResolveAPI.__init__: the six handles and the process afterwards.
ResolveAPI_init(proc, h) ==
  LET first == AppendOnce(proc.sys_path, ScriptApiPath[proc.system])
      second == AppendOnce(first, UserScriptApiPath)
      sys_path == IF proc.system \notin DOMAIN ScriptApiPath THEN proc.sys_path
                  ELSE IF proc.system = "Darwin" /\ ~CanImport(first, proc.installed)
                  THEN second
                  ELSE first
      app == IF proc.system \in DOMAIN ScriptApiPath /\ CanImport(sys_path, proc.installed)
             THEN proc.running ELSE NULL
  IN [api |-> connect_to_resolve(app, h), process |-> [proc EXCEPT !.sys_path = sys_path]]

\* A connection test that looks at the project manager instead.
is_connected_by_manager(api) == api.project_manager # NULL

is_connected(api) == api.resolve # NULL

\* A create that leaves the cached current project as it was.
create_project_keeping_current(api, h, project_name) ==
  IF ~Truthy(api.project_manager) THEN Val(api, h, FALSE, <<>>)
  ELSE LET r == CreateProject(h, project_name)
       IN IF Truthy(r.val)
          THEN Val([api EXCEPT !.media_pool = GetMediaPool(r.host, r.val)], r.host, TRUE,
                   << <<"CreateProject", project_name, r.val>>, <<"GetMediaPool", r.val>> >>)
          ELSE Val(api, r.host, FALSE, << <<"CreateProject", project_name, r.val>> >>)

\* A getter that answers from the cache without asking the host.
get_current_project_cached(api, h) == Val(api, h, api.current_project, <<>>)

ResolveAPI_get_current_project(api, h) ==
  IF Truthy(api.project_manager)
  THEN Val([api EXCEPT !.current_project = GetCurrentProject(h)], h,
           GetCurrentProject(h), << <<"GetCurrentProject">> >>)
  ELSE Val(api, h, api.current_project, <<>>)

ResolveAPI_get_media_storage(api, h) == Val(api, h, api.media_storage, <<>>)

ResolveAPI_get_media_pool(api, h) ==
  IF Truthy(api.current_project)
  THEN Val([api EXCEPT !.media_pool = GetMediaPool(h, api.current_project)], h,
           GetMediaPool(h, api.current_project),
           << <<"GetMediaPool", api.current_project>> >>)
  ELSE Val(api, h, api.media_pool, <<>>)

ValidPages == <<"media", "edit", "fusion", "color", "fairlight", "deliver">>

\* str.lower() and str.capitalize() on a string given as its characters
Alphabet == <<"a", "b", "c", "d", "e", "f", "g", "h", "i", "j", "k", "l", "m",
              "n", "o", "p", "q", "r", "s", "t", "u", "v", "w", "x", "y", "z">>
Capitals == <<"A", "B", "C", "D", "E", "F", "G", "H", "I", "J", "K", "L", "M",
              "N", "O", "P", "Q", "R", "S", "T", "U", "V", "W", "X", "Y", "Z">>
LowerChar(c) ==
  IF \E i \in 1..26 : Capitals[i] = c
  THEN Alphabet[CHOOSE i \in 1..26 : Capitals[i] = c] ELSE c
UpperChar(c) ==
  IF \E i \in 1..26 : Alphabet[i] = c
  THEN Capitals[CHOOSE i \in 1..26 : Alphabet[i] = c] ELSE c
Str(chars) == JoinWith("", chars)
lower(chars) == [i \in DOMAIN chars |-> LowerChar(chars[i])]
capitalize(chars) ==
  [i \in DOMAIN chars |-> IF i = 1 THEN UpperChar(chars[i]) ELSE LowerChar(chars[i])]

ResolveAPI_open_page(api, h, page_name, ok) ==
  IF ~Truthy(api.resolve) THEN Val(api, h, FALSE, <<>>)
  ELSE IF Str(lower(page_name)) \notin Range(ValidPages) THEN Val(api, h, FALSE, <<>>)
  ELSE Val(api, OpenPage(h, Str(lower(page_name)), ok).host, TRUE,
           << <<"OpenPage", Str(lower(page_name))>> >>)

ResolveAPI_create_project(api, h, project_name) ==
  IF ~Truthy(api.project_manager) THEN Val(api, h, FALSE, <<>>)
  ELSE LET r == CreateProject(h, project_name)
       IN IF Truthy(r.val)
          THEN Val([api EXCEPT !.current_project = r.val,
                               !.media_pool = GetMediaPool(r.host, r.val)],
                   r.host, TRUE,
                   << <<"CreateProject", project_name, r.val>>, <<"GetMediaPool", r.val>> >>)
          ELSE Val(api, r.host, FALSE, << <<"CreateProject", project_name, r.val>> >>)

\* A load that leaves the cached media pool as it was.
load_project_keeping_pool(api, h, project_name) ==
  IF ~Truthy(api.project_manager) THEN Val(api, h, FALSE, <<>>)
  ELSE LET r == LoadProject(h, project_name)
       IN IF Truthy(r.val)
          THEN Val([api EXCEPT !.current_project = r.val], r.host, TRUE,
                   << <<"LoadProject", project_name, r.val>> >>)
          ELSE Val(api, r.host, FALSE, << <<"LoadProject", project_name, r.val>> >>)

ResolveAPI_load_project(api, h, project_name) ==
  IF ~Truthy(api.project_manager) THEN Val(api, h, FALSE, <<>>)
  ELSE LET r == LoadProject(h, project_name)
       IN IF Truthy(r.val)
          THEN Val([api EXCEPT !.current_project = r.val,
                               !.media_pool = GetMediaPool(r.host, r.val)],
                   r.host, TRUE,
                   << <<"LoadProject", project_name, r.val>>, <<"GetMediaPool", r.val>> >>)
          ELSE Val(api, r.host, FALSE, << <<"LoadProject", project_name, r.val>> >>)

\* Project.SaveProject() answers ok.
ResolveAPI_save_project(api, h, ok) ==
  IF ~Truthy(api.current_project) THEN Val(api, h, FALSE, <<>>)
  ELSE Val(api, h, ok, << <<"SaveProject", api.current_project>> >>)

ResolveAPI_get_project_name(api, h) ==
  IF ~Truthy(api.current_project) THEN Val(api, h, NULL, <<>>)
  ELSE Val(api, h, GetName(api.current_project), << <<"GetName", api.current_project>> >>)

\* A getter that makes the project's first timeline current when none is.
get_current_timeline_or_first(api, h) ==
  IF ~Truthy(api.current_project) THEN Val(api, h, NULL, <<>>)
  ELSE IF ~Truthy(GetCurrentTimeline(h, api.current_project))
          /\ GetTimelineCount(h, api.current_project) > 0
  THEN Val(api,
           SetCurrentTimeline(h, api.current_project,
                              GetTimelineByIndex(h, api.current_project, 1), TRUE).host,
           GetTimelineByIndex(h, api.current_project, 1),
           << <<"SetCurrentTimeline", api.current_project>> >>)
  ELSE Val(api, h, GetCurrentTimeline(h, api.current_project),
           << <<"GetCurrentTimeline", api.current_project>> >>)

ResolveAPI_get_current_timeline(api, h) ==
  IF ~Truthy(api.current_project) THEN Val(api, h, NULL, <<>>)
  ELSE Val(api, h, GetCurrentTimeline(h, api.current_project),
           << <<"GetCurrentTimeline", api.current_project>> >>)

\* Fusion.CurrentComp; an exception is logged and None returned.
ResolveAPI_get_current_comp(api, h, ok) ==
  IF ~Truthy(api.fusion) THEN Val(api, h, NULL, <<>>)
  ELSE IF ~ok THEN Val(api, h, NULL, << <<"CurrentComp">> >>)
  ELSE Val(api, h, IF h.comp.open THEN "comp" ELSE NULL, << <<"CurrentComp">> >>)

\* What is given as inputs: None or an empty dictionary ("none"), a dictionary
\* of inputs the node takes ("dict"), or a non-empty value that is no
\* dictionary, such as a string, whose .items() raises AttributeError ("str").
InputKinds == {"none", "dict", "str"}

\* The created node (0 for None); an exception is logged and None returned,
\* also when it comes after comp.AddTool() has added the node.
ResolveAPI_create_fusion_node(api, h, comp, node_type, inputs, ok) ==
  IF ~Truthy(api.fusion) \/ ~Truthy(comp) THEN Val(api, h, 0, <<>>)
  ELSE LET r == AddTool(h, node_type, ok)
       IN IF r.exc # "" THEN Val(api, h, 0, << <<"AddTool", node_type>> >>)
          ELSE IF inputs = "dict" /\ r.val # 0
          THEN Val(api, SetInputs(r.host, r.val), r.val,
                   << <<"AddTool", node_type>>, <<"SetInput", ToString(r.val)>> >>)
          ELSE IF inputs = "str" /\ r.val # 0
          THEN Val(api, r.host, 0, << <<"AddTool", node_type>> >>)
          ELSE Val(api, r.host, r.val, << <<"AddTool", node_type>> >>)

\* ---------------------------------------------------------------- server
\* An endpoint gives the adapter's fields and the host after the call, the
\* text returned (ret), the exception that escaped instead (exc, "" for none)
\* and the host calls made.

Ret(api, h, calls, text) ==
  [api |-> api, host |-> h, ret |-> text, exc |-> "", calls |-> calls]
Raise(api, h, calls, e) ==
  [api |-> api, host |-> h, ret |-> "", exc |-> e, calls |-> calls]

NotConnected == "Error: Not connected to DaVinci Resolve."
NoProjectOpen == "No project is currently open."
NoMediaPool == "No media pool available."
NoCurrentFolder == "No current folder available."
NoComp ==
  "No active Fusion composition. Please open the Fusion page and select a composition first."

StatusNotConnected ==
  "\n        DaVinci Resolve Status:\n        - Connection: Not connected\n"
  \o "        - Error: DaVinci Resolve is not running or not accessible\n        "

StatusConnected(project_name, timeline_name) ==
  "\n        DaVinci Resolve Status:\n        - Connection: Connected\n"
  \o "        - Current Project: " \o project_name \o "\n"
  \o "        - Current Timeline: " \o timeline_name \o "\n        "

\* Timeline.GetStartFrame() and GetEndFrame(): one frame per item.
GetStartFrame(h, p, tl) == 0
GetEndFrame(h, p, tl) == Len(GetItemsInTrack(h, p, tl, "video", 1)) - 1

\* MediaStorage.GetMountedVolumes()
GetMountedVolumes(h) == h.volumes

\* @mcp.resource("system://status")
get_system_status(api, h) ==
  IF is_connected(api)
  THEN LET n == ResolveAPI_get_project_name(api, h)
           t == ResolveAPI_get_current_timeline(n.api, n.host)
           project_name == IF Truthy(n.val) THEN n.val ELSE "No project open"
           timeline_name == IF Truthy(t.val) THEN t.val ELSE "No timeline open"
       IN Ret(t.api, t.host,
              n.calls \o t.calls
                \o (IF Truthy(t.val) THEN << <<"Timeline.GetName", t.val>> >> ELSE <<>>),
              StatusConnected(project_name, timeline_name))
  ELSE Ret(api, h, <<>>, StatusNotConnected)

\* @mcp.resource("project://current")
get_current_project(api, h) ==
  IF ~is_connected(api) THEN Ret(api, h, <<>>, NotConnected)
  ELSE LET g == ResolveAPI_get_current_project(api, h)
           project == g.val
       IN IF ~Truthy(project) THEN Ret(g.api, g.host, g.calls, NoProjectOpen)
          ELSE LET current_timeline == GetCurrentTimeline(h, project)
                   timeline_name ==
                     IF Truthy(current_timeline) THEN current_timeline ELSE "None"
               IN Ret(g.api, g.host,
                      g.calls \o << <<"GetName", project>>, <<"GetTimelineCount", project>>,
                                    <<"GetCurrentTimeline", project>> >>,
                      "\n    Current Project: " \o GetName(project)
                      \o "\n    Timeline Count: " \o ToString(GetTimelineCount(h, project))
                      \o "\n    Current Timeline: " \o timeline_name \o "\n    ")

\* The lines "i. name" of project://timelines; project.GetTimelineByIndex(i)
\* answers None for the indices in gone, as when a timeline goes away after
\* it was counted.
TimelineLines(h, project, gone) ==
  LET idx == SelectSeq([i \in 1..GetTimelineCount(h, project) |-> i],
                       LAMBDA i : i \notin gone /\ Truthy(GetTimelineByIndex(h, project, i)))
  IN [k \in DOMAIN idx |-> ToString(idx[k]) \o ". " \o GetTimelineByIndex(h, project, idx[k])]

\* @mcp.resource("project://timelines")
get_project_timelines(api, h, gone) ==
  IF ~is_connected(api) THEN Ret(api, h, <<>>, NotConnected)
  ELSE LET g == ResolveAPI_get_current_project(api, h)
           project == g.val
       IN IF ~Truthy(project) THEN Ret(g.api, g.host, g.calls, NoProjectOpen)
          ELSE IF GetTimelineCount(h, project) = 0
          THEN Ret(g.api, g.host, g.calls \o << <<"GetTimelineCount", project>> >>,
                   "No timelines in the current project.")
          ELSE Ret(g.api, g.host, g.calls \o << <<"GetTimelineCount", project>> >>,
                   JoinWith("\n", TimelineLines(h, project, gone)))

\* @mcp.resource("timeline://current")
get_current_timeline(api, h) ==
  IF ~is_connected(api) THEN Ret(api, h, <<>>, NotConnected)
  ELSE LET g == ResolveAPI_get_current_project(api, h)
           project == g.val
       IN IF ~Truthy(project) THEN Ret(g.api, g.host, g.calls, NoProjectOpen)
          ELSE LET timeline == GetCurrentTimeline(h, project)
                   start_frame == GetStartFrame(h, project, timeline)
                   end_frame == GetEndFrame(h, project, timeline)
                   duration == end_frame - start_frame + 1
               IN IF ~Truthy(timeline)
                  THEN Ret(g.api, g.host, g.calls \o << <<"GetCurrentTimeline", project>> >>,
                           "No timeline is currently open.")
                  ELSE Ret(g.api, g.host, g.calls \o << <<"GetCurrentTimeline", project>> >>,
                           "\n    Timeline: " \o timeline
                           \o "\n    Duration: " \o ToString(duration) \o " frames ("
                           \o ToString(start_frame) \o " - " \o ToString(end_frame) \o ")"
                           \o "\n    Video Tracks: "
                           \o ToString(GetTrackCount(h, project, timeline, "video"))
                           \o "\n    Audio Tracks: "
                           \o ToString(GetTrackCount(h, project, timeline, "audio"))
                           \o "\n    Subtitle Tracks: "
                           \o ToString(GetTrackCount(h, project, timeline, "subtitle"))
                           \o "\n    ")

\* get_folder_structure(root_folder): the root and its sub folders, indented
get_folder_structure(h, pool) ==
  <<"- Master">> \o [i \in DOMAIN GetSubFolders(h, pool) |-> "  - " \o GetSubFolders(h, pool)[i]]

\* @mcp.resource("mediapool://folders")
get_media_pool_folders(api, h) ==
  IF ~is_connected(api) THEN Ret(api, h, <<>>, NotConnected)
  ELSE LET g == ResolveAPI_get_media_pool(api, h)
           media_pool == g.val
       IN IF ~Truthy(media_pool) THEN Ret(g.api, g.host, g.calls, NoMediaPool)
          ELSE Ret(g.api, g.host, g.calls \o << <<"GetRootFolder", media_pool>> >>,
                   JoinWith("\n", get_folder_structure(h, media_pool)))

\* @mcp.resource("mediapool://current").  GetClips() gives the clips keyed by
\* position (server.py:465 takes its .values()), so enumerate(clips, 1) walks
\* the keys and clip.GetName() is asked of a number.
get_current_media_pool_folder(api, h) ==
  IF ~is_connected(api) THEN Ret(api, h, <<>>, NotConnected)
  ELSE LET g == ResolveAPI_get_media_pool(api, h)
           media_pool == g.val
           clips == GetClips(h, media_pool)
           calls == g.calls \o << <<"GetCurrentFolder", media_pool>>,
                                  <<"GetClips", media_pool>> >>
       IN IF ~Truthy(media_pool) THEN Ret(g.api, g.host, g.calls, NoMediaPool)
          ELSE IF Len(clips) = 0
          THEN Ret(g.api, g.host, calls,
                   "Current Folder: Master\nClip Count: 0\nClips:\nNo clips in this folder.")
          ELSE Raise(g.api, g.host, calls, "AttributeError")

\* @mcp.resource("storage://volumes")
get_mounted_volumes(api, h) ==
  IF ~is_connected(api) THEN Ret(api, h, <<>>, NotConnected)
  ELSE LET media_storage == ResolveAPI_get_media_storage(api, h).val
           volumes == GetMountedVolumes(h)
       IN IF ~Truthy(media_storage) THEN Ret(api, h, <<>>, "No media storage available.")
          ELSE IF volumes = <<>>
          THEN Ret(api, h, << <<"GetMountedVolumes">> >>, "No mounted volumes available.")
          ELSE Ret(api, h, << <<"GetMountedVolumes">> >>,
                   JoinWith("\n", [i \in DOMAIN volumes |-> ToString(i) \o ". " \o volumes[i]]))

\* @mcp.tool() create_project
create_project(api, h, name) ==
  IF ~is_connected(api) THEN Ret(api, h, <<>>, NotConnected)
  ELSE LET r == ResolveAPI_create_project(api, h, name)
       IN IF r.val
          THEN Ret(r.api, r.host, r.calls, "Successfully created project '" \o name \o "'.")
          ELSE Ret(r.api, r.host, r.calls,
                   "Failed to create project '" \o name \o "'. The project may already exist.")

\* @mcp.tool() load_project
load_project(api, h, name) ==
  IF ~is_connected(api) THEN Ret(api, h, <<>>, NotConnected)
  ELSE LET r == ResolveAPI_load_project(api, h, name)
       IN IF r.val
          THEN Ret(r.api, r.host, r.calls, "Successfully loaded project '" \o name \o "'.")
          ELSE Ret(r.api, r.host, r.calls,
                   "Failed to load project '" \o name \o "'. The project may not exist.")

\* @mcp.tool() save_project; Project.SaveProject() answers ok.
save_project(api, h, ok) ==
  IF ~is_connected(api) THEN Ret(api, h, <<>>, NotConnected)
  ELSE LET g == ResolveAPI_get_current_project(api, h)
           project == g.val
           r == ResolveAPI_save_project(g.api, g.host, ok)
       IN IF ~Truthy(project) THEN Ret(g.api, g.host, g.calls, NoProjectOpen)
          ELSE IF r.val
          THEN Ret(r.api, r.host, g.calls \o r.calls \o << <<"GetName", project>> >>,
                   "Successfully saved project '" \o GetName(project) \o "'.")
          ELSE Ret(r.api, r.host, g.calls \o r.calls \o << <<"GetName", project>> >>,
                   "Failed to save project '" \o GetName(project) \o "'.")

\* @mcp.tool() create_timeline; Project.SetCurrentTimeline() answers ok.
create_timeline(api, h, name, ok) ==
  IF ~is_connected(api) THEN Ret(api, h, <<>>, NotConnected)
  ELSE LET g == ResolveAPI_get_current_project(api, h)
           project == g.val
           m == ResolveAPI_get_media_pool(g.api, g.host)
           media_pool == m.val
           c == CreateEmptyTimeline(m.host, media_pool, name)
           timeline == c.val
           sc == SetCurrentTimeline(c.host, project, timeline, ok)
       IN IF ~Truthy(project) THEN Ret(g.api, g.host, g.calls, NoProjectOpen)
          ELSE IF ~Truthy(media_pool) THEN Ret(m.api, m.host, g.calls \o m.calls, NoMediaPool)
          ELSE IF Truthy(timeline)
          THEN Ret(m.api, sc.host,
                   g.calls \o m.calls \o << <<"CreateEmptyTimeline", media_pool, name>>,
                                            <<"SetCurrentTimeline", project, timeline>> >>,
                   "Successfully created timeline '" \o name \o "'.")
          ELSE Ret(m.api, c.host,
                   g.calls \o m.calls \o << <<"CreateEmptyTimeline", media_pool, name>> >>,
                   "Failed to create timeline '" \o name \o "'. The timeline may already exist.")

\* A set_current_timeline whose range check lets index 0 through.
set_current_timeline_from_zero(api, h, index, ok) ==
  IF ~is_connected(api) THEN Ret(api, h, <<>>, NotConnected)
  ELSE LET g == ResolveAPI_get_current_project(api, h)
           project == g.val
           timeline_count == GetTimelineCount(h, project)
           timeline == GetTimelineByIndex(h, project, index)
           sc == SetCurrentTimeline(h, project, timeline, ok)
       IN IF ~Truthy(project) THEN Ret(g.api, g.host, g.calls, NoProjectOpen)
          ELSE IF index < 0 \/ index > timeline_count
          THEN Ret(g.api, g.host, g.calls,
                   "Invalid timeline index. Valid range is 1-" \o ToString(timeline_count) \o ".")
          ELSE IF ~Truthy(timeline)
          THEN Ret(g.api, g.host, g.calls, "Failed to get timeline at index " \o ToString(index) \o ".")
          ELSE IF sc.val
          THEN Ret(g.api, sc.host, g.calls,
                   "Successfully set current timeline to '" \o timeline \o "'.")
          ELSE Ret(g.api, sc.host, g.calls,
                   "Failed to set current timeline to '" \o timeline \o "'.")

\* @mcp.tool() set_current_timeline; Project.SetCurrentTimeline() answers ok.
set_current_timeline(api, h, index, ok) ==
  IF ~is_connected(api) THEN Ret(api, h, <<>>, NotConnected)
  ELSE LET g == ResolveAPI_get_current_project(api, h)
           project == g.val
           timeline_count == GetTimelineCount(h, project)
           timeline == GetTimelineByIndex(h, project, index)
           sc == SetCurrentTimeline(h, project, timeline, ok)
           c1 == g.calls \o << <<"GetTimelineCount", project>> >>
           c2 == c1 \o << <<"GetTimelineByIndex", project, ToString(index)>> >>
           c3 == c2 \o << <<"SetCurrentTimeline", project, timeline>>,
                          <<"Timeline.GetName", timeline>> >>
       IN IF ~Truthy(project) THEN Ret(g.api, g.host, g.calls, NoProjectOpen)
          ELSE IF index < 1 \/ index > timeline_count
          THEN Ret(g.api, g.host, c1,
                   "Invalid timeline index. Valid range is 1-" \o ToString(timeline_count) \o ".")
          ELSE IF ~Truthy(timeline)
          THEN Ret(g.api, g.host, c2, "Failed to get timeline at index " \o ToString(index) \o ".")
          ELSE IF sc.val
          THEN Ret(g.api, sc.host, c3,
                   "Successfully set current timeline to '" \o timeline \o "'.")
          ELSE Ret(g.api, sc.host, c3,
                   "Failed to set current timeline to '" \o timeline \o "'.")

\* @mcp.tool() import_media
import_media(api, h, file_paths) ==
  IF ~is_connected(api) THEN Ret(api, h, <<>>, NotConnected)
  ELSE LET media_storage == ResolveAPI_get_media_storage(api, h).val
           m == ResolveAPI_get_media_pool(api, h)
           a == AddItemsToMediaPool(m.host, file_paths)
           clips == a.val
           calls == m.calls \o << <<"AddItemsToMediaPool", file_paths>> >>
       IN IF ~Truthy(media_storage) THEN Ret(api, h, <<>>, "No media storage available.")
          ELSE IF ~Truthy(m.val) THEN Ret(m.api, m.host, m.calls, NoMediaPool)
          ELSE IF clips # <<>>
          THEN Ret(m.api, a.host, calls,
                   "Successfully imported " \o ToString(Len(clips)) \o " media files.")
          ELSE Ret(m.api, a.host, calls,
                   "Failed to import media files. Check that the file paths are valid.")

\* @mcp.tool() create_folder
create_folder(api, h, name) ==
  IF ~is_connected(api) THEN Ret(api, h, <<>>, NotConnected)
  ELSE LET m == ResolveAPI_get_media_pool(api, h)
           media_pool == m.val
           a == AddSubFolder(m.host, media_pool, name)
           calls == m.calls \o << <<"GetCurrentFolder", media_pool>>,
                                  <<"AddSubFolder", media_pool, name>> >>
       IN IF ~Truthy(media_pool) THEN Ret(m.api, m.host, m.calls, NoMediaPool)
          ELSE IF Truthy(a.val)
          THEN Ret(m.api, a.host, calls, "Successfully created folder '" \o name \o "'.")
          ELSE Ret(m.api, a.host, calls,
                   "Failed to create folder '" \o name \o "'. The folder may already exist.")

RECURSIVE SelectValidClips(_, _, _)
\* A loop that passes over an invalid index and goes on with the next.
SelectValidClips(clips_list, clip_indices, selected_clips) ==
  IF clip_indices = <<>> THEN [selected |-> selected_clips, bad |-> <<>>]
  ELSE LET index == Head(clip_indices)
       IN IF index < 1 \/ index > Len(clips_list)
          THEN SelectValidClips(clips_list, Tail(clip_indices), selected_clips)
          ELSE SelectValidClips(clips_list, Tail(clip_indices),
                                Append(selected_clips, At(clips_list, index - 1)))

RECURSIVE SelectClips(_, _, _)
\* The loop of create_timeline_from_clips over clip_indices: the clips
\* selected so far, and the first invalid index met (0 for none).
SelectClips(clips_list, clip_indices, selected_clips) ==
  IF clip_indices = <<>> THEN [selected |-> selected_clips, bad |-> <<>>]
  ELSE LET index == Head(clip_indices)
       IN IF index < 1 \/ index > Len(clips_list)
          THEN [selected |-> selected_clips, bad |-> <<index>>]
          ELSE SelectClips(clips_list, Tail(clip_indices),
                           Append(selected_clips, At(clips_list, index - 1)))

\* @mcp.tool() create_timeline_from_clips
create_timeline_from_clips(api, h, name, clip_indices) ==
  IF ~is_connected(api) THEN Ret(api, h, <<>>, NotConnected)
  ELSE LET m == ResolveAPI_get_media_pool(api, h)
           media_pool == m.val
           clips == GetClips(m.host, media_pool)
           \* list(clips.values())
           clips_list == [i \in 1..Len(clips) |-> clips[i]]
           sel == SelectClips(clips_list, clip_indices, <<>>)
           c == CreateTimelineFromClips(m.host, media_pool, name, sel.selected)
           c1 == m.calls \o << <<"GetCurrentFolder", media_pool>>, <<"GetClips", media_pool>> >>
           c2 == c1 \o << <<"CreateTimelineFromClips", media_pool, name, sel.selected>> >>
       IN IF ~Truthy(media_pool) THEN Ret(m.api, m.host, m.calls, NoMediaPool)
          ELSE IF Len(clips) = 0 THEN Ret(m.api, m.host, c1, "No clips in the current folder.")
          ELSE IF sel.bad # <<>>
          THEN Ret(m.api, m.host, c1,
                   "Invalid clip index " \o ToString(sel.bad[1]) \o ". Valid range is 1-"
                   \o ToString(Len(clips_list)) \o ".")
          ELSE IF Truthy(c.val)
          THEN Ret(m.api, c.host, c2,
                   "Successfully created timeline '" \o name \o "' with "
                   \o ToString(Len(sel.selected)) \o " clips.")
          ELSE Ret(m.api, c.host, c2, "Failed to create timeline '" \o name \o "'.")

\* @mcp.tool() add_fusion_comp_to_clip; TimelineItem.AddFusionComp() ends as
\* outcome, Resolve.OpenPage() opens the page when okPage.
add_fusion_comp_to_clip(api, h, timeline_index, track_type, track_index, item_index, outcome, okPage) ==
  IF ~is_connected(api) THEN Ret(api, h, <<>>, NotConnected)
  ELSE LET g == ResolveAPI_get_current_project(api, h)
           project == g.val
           timeline_count == GetTimelineCount(h, project)
           timeline == GetTimelineByIndex(h, project, timeline_index)
           track_count == GetTrackCount(h, project, timeline, track_type)
           items == GetItemsInTrack(h, project, timeline, track_type, track_index)
           item == At(items, item_index - 1)
           a == AddFusionComp(h, item, outcome)
           o == ResolveAPI_open_page(g.api, a.host, <<"f", "u", "s", "i", "o", "n">>, okPage)
           where == track_type \o " track " \o ToString(track_index)
                    \o ", item " \o ToString(item_index) \o "."
           c1 == g.calls \o << <<"GetTimelineCount", project>> >>
           c2 == c1 \o << <<"GetTimelineByIndex", project, ToString(timeline_index)>> >>
           c3 == c2 \o << <<"GetTrackCount", timeline, track_type>> >>
           c4 == c3 \o << <<"GetItemsInTrack", timeline, track_type, ToString(track_index)>> >>
           c5 == c4 \o << <<"AddFusionComp", item>> >>
       IN IF ~Truthy(project) THEN Ret(g.api, g.host, g.calls, NoProjectOpen)
          ELSE IF timeline_index < 1 \/ timeline_index > timeline_count
          THEN Ret(g.api, g.host, c1,
                   "Invalid timeline index. Valid range is 1-" \o ToString(timeline_count) \o ".")
          ELSE IF ~Truthy(timeline)
          THEN Ret(g.api, g.host, c2,
                   "Failed to get timeline at index " \o ToString(timeline_index) \o ".")
          ELSE IF track_type \notin {"video", "audio", "subtitle"}
          THEN Ret(g.api, g.host, c2,
                   "Invalid track type. Valid types are 'video', 'audio', or 'subtitle'.")
          ELSE IF track_index < 1 \/ track_index > track_count
          THEN Ret(g.api, g.host, c3,
                   "Invalid track index. Valid range is 1-" \o ToString(track_count) \o ".")
          ELSE IF Len(items) = 0
          THEN Ret(g.api, g.host, c4,
                   "No items in " \o track_type \o " track " \o ToString(track_index) \o ".")
          ELSE IF item_index < 1 \/ item_index > Len(items)
          THEN Ret(g.api, g.host, c4,
                   "Invalid item index. Valid range is 1-" \o ToString(Len(items)) \o ".")
          ELSE IF a.exc # "" THEN Raise(g.api, a.host, c5, a.exc)
          ELSE IF Truthy(a.val)
          THEN Ret(o.api, o.host, c5 \o o.calls, "Successfully added Fusion composition to " \o where)
          ELSE Ret(g.api, a.host, c5, "Failed to add Fusion composition to " \o where)

\* @mcp.tool() create_fusion_node; parameters: "none" or "dict", the argument
\* being declared a dictionary.  Fusion.CurrentComp answers when okComp, AddTool when okAdd.
create_fusion_node(api, h, node_type, parameters, okComp, okAdd) ==
  IF ~is_connected(api) THEN Ret(api, h, <<>>, NotConnected)
  ELSE LET g == ResolveAPI_get_current_comp(api, h, okComp)
           comp == g.val
           n == ResolveAPI_create_fusion_node(g.api, g.host, comp, node_type, parameters, okAdd)
       IN IF ~Truthy(comp) THEN Ret(g.api, g.host, g.calls, NoComp)
          ELSE IF n.val # 0
          THEN Ret(n.api, n.host, g.calls \o n.calls,
                   "Successfully created " \o node_type \o " node in the Fusion composition.")
          ELSE Ret(n.api, n.host, g.calls \o n.calls,
                   "Failed to create " \o node_type \o " node. Check that the node type is valid.")

RECURSIVE NodeChainLoop(_, _, _, _, _, _, _, _)
\* The for loop of create_fusion_node_chain over the rest of node_chain.  A
\* node_info is [type, name, params], type "" for a missing or empty type,
\* name "" for a missing or empty name and params one of InputKinds.  node.ConnectInput() raises when
\* ~okConnect.
NodeChainLoop(api, h, comp, rest, prev_node, nodes_created, calls, ok) ==
  IF rest = <<>>
  THEN [host |-> h, created |-> nodes_created, calls |-> calls, exc |-> ""]
  ELSE LET node_info == Head(rest)
           n == ResolveAPI_create_fusion_node(api, h, comp, node_info.type,
                                              node_info.params, ok.add)
           node == n.val
           named == IF node_info.name # "" THEN SetAttrs(n.host, node, node_info.name)
                    ELSE n.host
           linked == IF prev_node # 0 THEN ConnectInput(named, node, prev_node) ELSE named
           made == calls \o n.calls
                   \o (IF node_info.name # ""
                       THEN << <<"SetAttrs", ToString(node), node_info.name>> >> ELSE <<>>)
                   \o (IF prev_node # 0
                       THEN << <<"ConnectInput", ToString(node), ToString(prev_node)>> >>
                       ELSE <<>>)
       IN IF node_info.type = ""
          THEN NodeChainLoop(api, h, comp, Tail(rest), prev_node, nodes_created, calls, ok)
          ELSE IF node = 0
          THEN NodeChainLoop(api, n.host, comp, Tail(rest), prev_node, nodes_created,
                             calls \o n.calls, ok)
          ELSE IF prev_node # 0 /\ ~ok.connect
          THEN [host |-> named, created |-> nodes_created, calls |-> made,
                exc |-> "RuntimeError"]
          ELSE NodeChainLoop(api, linked, comp, Tail(rest), node,
                             Append(nodes_created, node_info.type), made, ok)

\* @mcp.tool() create_fusion_node_chain; ok = [comp, add, connect]: whether
\* Fusion.CurrentComp, AddTool and ConnectInput answer.
create_fusion_node_chain(api, h, node_chain, ok) ==
  IF ~is_connected(api) THEN Ret(api, h, <<>>, NotConnected)
  ELSE LET g == ResolveAPI_get_current_comp(api, h, ok.comp)
           comp == g.val
           l == NodeChainLoop(g.api, g.host, comp, node_chain, 0, <<>>, <<>>, ok)
       IN IF ~Truthy(comp) THEN Ret(g.api, g.host, g.calls, NoComp)
          ELSE IF Len(node_chain) = 0
          THEN Ret(g.api, g.host, g.calls, "No nodes specified in the chain.")
          ELSE IF l.exc # ""
          THEN Ret(g.api, l.host, g.calls \o l.calls, "Error creating node chain: " \o l.exc)
          ELSE IF l.created = <<>>
          THEN Ret(g.api, l.host, g.calls \o l.calls, "Failed to create any nodes in the chain.")
          ELSE Ret(g.api, l.host, g.calls \o l.calls,
                   "Successfully created node chain: " \o JoinWith(" -> ", l.created))

\* @mcp.tool() open_page; page_name as its characters.  Resolve.OpenPage()
\* opens the page when ok.
open_page(api, h, page_name, ok) ==
  IF ~is_connected(api) THEN Ret(api, h, <<>>, NotConnected)
  ELSE IF Str(lower(page_name)) \notin Range(ValidPages)
  THEN Ret(api, h, <<>>,
           "Invalid page name. Valid pages are: " \o JoinWith(", ", ValidPages) \o ".")
  ELSE LET r == ResolveAPI_open_page(api, h, lower(page_name), ok)
       IN IF r.val
          THEN Ret(r.api, r.host, r.calls,
                   "Successfully opened the " \o Str(capitalize(page_name)) \o " page.")
          ELSE Ret(r.api, r.host, r.calls,
                   "Failed to open the " \o Str(capitalize(page_name)) \o " page.")

\* ------------------------------------------------------- execute_python
\* The code given to execute_python, by what it does to its namespace, to the
\* adapter object it finds there under the name resolve_api, and to the host:
\*   pass           nothing
\*   assign n       n = None
\*   del n          del n
\*   assign_raise n n = None, then raise ValueError("boom")
\*   exit           raise SystemExit
\*   result         result = 42
\*   load p         resolve.GetProjectManager().LoadProject(p)
\*   set n          resolve_api.n = None
\*   set_raise n    resolve_api.n = None, then raise ValueError("boom")
\*   set_del n      resolve_api.n = None, then del n
\*   call p         resolve_api.load_project(p)
Code(kind, name) == [kind |-> kind, name |-> name]

\* local_namespace of execute_python: the names bound and their values
Namespace(api) == [bound |-> HandleNames, val |-> api, result |-> NULL]

\* exec(code, globals(), local_namespace): the namespace, the adapter's fields
\* and the host afterwards, and the exception the code ended with.
Exec(code, ns, api, h) ==
  LET done == [ns |-> ns, api |-> api, host |-> h, exc |-> "", calls |-> <<>>]
      unset == [api EXCEPT ![code.name] = NULL]
      loaded == ResolveAPI_load_project(api, h, code.name)
  IN CASE code.kind = "assign" -> [done EXCEPT !.ns.val[code.name] = NULL]
       [] code.kind = "del" -> [done EXCEPT !.ns.bound = @ \ {code.name}]
       [] code.kind = "assign_raise" ->
            [done EXCEPT !.ns.val[code.name] = NULL, !.exc = "ValueError"]
       [] code.kind = "exit" -> [done EXCEPT !.exc = "SystemExit"]
       [] code.kind = "result" -> [done EXCEPT !.ns.result = "42"]
       [] code.kind = "load" ->
            [done EXCEPT !.host = LoadProject(h, code.name).host,
                         !.calls = << <<"GetProjectManager">>,
                                      <<"LoadProject", code.name,
                                        LoadProject(h, code.name).val>> >>]
       [] code.kind = "set" -> [done EXCEPT !.api = unset]
       [] code.kind = "set_raise" -> [done EXCEPT !.api = unset, !.exc = "ValueError"]
       [] code.kind = "set_del" -> [done EXCEPT !.api = unset, !.ns.bound = @ \ {code.name}]
       [] code.kind = "call" ->
            [done EXCEPT !.api = loaded.api, !.host = loaded.host, !.calls = loaded.calls]
       [] OTHER -> done

\* Exceptions that "except Exception" does not catch
BaseOnly == {"SystemExit", "KeyboardInterrupt", "GeneratorExit"}

\* local_namespace.get(name, default)
NsGet(ns, name, default) == IF name \in ns.bound THEN ns.val[name] ELSE default

\* resolve_api.<name> = local_namespace.get("<name>", resolve_api.<name>)
WriteBack(api, ns) == [n \in HandleNames |-> NsGet(ns, n, api[n])]

\* @mcp.tool() execute_python
execute_python(api, h, code) ==
  IF ~is_connected(api) THEN Ret(api, h, <<>>, NotConnected)
  ELSE LET x == Exec(code, Namespace(api), api, h)
       IN IF x.exc \in BaseOnly THEN Raise(x.api, x.host, x.calls, x.exc)
          ELSE IF x.exc # ""
          THEN Ret(x.api, x.host, x.calls, "Error executing code: boom")
          ELSE IF x.ns.result # NULL
          THEN Ret(WriteBack(x.api, x.ns), x.host, x.calls, x.ns.result)
          ELSE Ret(WriteBack(x.api, x.ns), x.host, x.calls, "Code executed successfully.")

\* Fusion.Execute(script): the script's value, None, or an exception
LuaScripts == {"return 1", "x = 1", "error()"}

\* ResolveAPI.execute_lua
ResolveAPI_execute_lua(api, h, script) ==
  IF ~Truthy(api.fusion) THEN [val |-> NULL, exc |-> "", calls |-> <<>>]
  ELSE [val |-> IF script = "return 1" THEN "1" ELSE NULL,
        exc |-> IF script = "error()" THEN "RuntimeError" ELSE "",
        calls |-> << <<"Execute", script>> >>]

\* @mcp.tool() execute_lua
execute_lua(api, h, script) ==
  IF ~is_connected(api) THEN Ret(api, h, <<>>, NotConnected)
  ELSE IF ~Truthy(api.fusion) THEN Ret(api, h, <<>>, "Fusion is not available.")
  ELSE LET r == ResolveAPI_execute_lua(api, h, script)
       IN IF r.exc # "" THEN Ret(api, h, r.calls, "Error executing Lua script: " \o r.exc)
          ELSE IF r.val # NULL THEN Ret(api, h, r.calls, r.val)
          ELSE Ret(api, h, r.calls, "Script executed successfully.")

\* ---------------------------------------------------------- state machine
\* The host when the server starts: project p1 exists, open or not, and holds
\* nothing yet; the Media page is open; a Fusion composition is open or not.
HostAtStart(current, compOpen) ==
  [projects |-> {"p1"},
   current |-> current,
   timelines |-> [p \in ProjNames |-> <<>>],
   curTL |-> [p \in ProjNames |-> NULL],
   clips |-> [p \in ProjNames |-> 0],
   folders |-> [p \in ProjNames |-> <<>>],
   page |-> "media",
   comp |-> [open |-> compOpen, nodes |-> <<>>],
   itemComps |-> {},
   volumes |-> <<"/Volumes/Media">>]

\* The process of a server started on Linux with the scripting module in its
\* place, after resolve_api = ResolveAPI(): scriptapp("Resolve") gave app.
ProcessAfter(app) ==
  [system |-> "Linux", sys_path |-> <<ScriptApiPath["Linux"]>>,
   installed |-> {ScriptApiPath["Linux"]}, running |-> app]

NoCall == [op |-> "start", args |-> <<>>, ret |-> "", exc |-> "", calls |-> <<>>]

\* The second run while it is not used: its adapter, its host, the outcome of
\* its last compared call, whether the step taken was a compared call (both),
\* whether execute_python was among the earlier calls of either run (exec), and
\* the calls made so far by the first run (n1) and by the second (n2).
NoTwin ==
  [api |-> NoHandles, host |-> NULL, last |-> NoCall, both |-> FALSE, exec |-> FALSE,
   n1 |-> 0, n2 |-> 0]

\* resolve_api = ResolveAPI() (server.py:47): scriptapp("Resolve") gave the
\* application object or None.
InitWith(currents, compOpens) ==
  \E app \in {"Resolve", NULL}, current \in currents, compOpen \in compOpens :
    /\ host = HostAtStart(current, compOpen)
    /\ resolve_api = connect_to_resolve(app, host)
    /\ last = NoCall
    /\ twin = NoTwin
    /\ process = ProcessAfter(app)

\* The objects the host holds.
Objects(h) ==
  Len(h.timelines["p1"]) + h.clips["p1"] + Len(h.folders["p1"])
  + Len(h.timelines["p2"]) + h.clips["p2"] + Len(h.folders["p2"])
  + Len(h.comp.nodes) + Cardinality(h.itemComps)

\* The runs explored keep the host within the bounds.
Bounded(h) ==
  /\ Objects(h) <= MaxObjects
  /\ \A p \in ProjNames :
       /\ Len(h.timelines[p]) <= MaxTimelines
       /\ h.clips[p] <= MaxClips
       /\ Len(h.folders[p]) <= MaxFolders
  /\ Len(h.comp.nodes) <= MaxNodes

\* An endpoint was invoked with args and ended as r.
Invoke(op, args, r) ==
  /\ Bounded(r.host)
  /\ resolve_api' = r.api
  /\ host' = r.host
  /\ last' = [op |-> op, args |-> args, ret |-> r.ret, exc |-> r.exc, calls |-> r.calls]
  /\ twin' = twin
  /\ process' = process

Resource_system_status == Invoke("system://status", <<>>, get_system_status(resolve_api, host))
Resource_project_current == Invoke("project://current", <<>>, get_current_project(resolve_api, host))
Resource_project_timelines(gone) ==
  Invoke("project://timelines", <<gone>>, get_project_timelines(resolve_api, host, gone))
Resource_timeline_current == Invoke("timeline://current", <<>>, get_current_timeline(resolve_api, host))
Resource_mediapool_folders == Invoke("mediapool://folders", <<>>, get_media_pool_folders(resolve_api, host))
Resource_mediapool_current == Invoke("mediapool://current", <<>>, get_current_media_pool_folder(resolve_api, host))
Resource_storage_volumes == Invoke("storage://volumes", <<>>, get_mounted_volumes(resolve_api, host))

Tool_create_project(name) ==
  Invoke("create_project", <<name>>, create_project(resolve_api, host, name))
Tool_load_project(name) ==
  Invoke("load_project", <<name>>, load_project(resolve_api, host, name))
Tool_save_project(ok) ==
  Invoke("save_project", <<ok>>, save_project(resolve_api, host, ok))
Tool_create_timeline(name, ok) ==
  Invoke("create_timeline", <<name, ok>>, create_timeline(resolve_api, host, name, ok))
Tool_set_current_timeline(index, ok) ==
  Invoke("set_current_timeline", <<index, ok>>, set_current_timeline(resolve_api, host, index, ok))
Tool_import_media(file_paths) ==
  Invoke("import_media", <<file_paths>>, import_media(resolve_api, host, file_paths))
Tool_create_folder(name) ==
  Invoke("create_folder", <<name>>, create_folder(resolve_api, host, name))
Tool_create_timeline_from_clips(name, clip_indices) ==
  Invoke("create_timeline_from_clips", <<name, clip_indices>>,
         create_timeline_from_clips(resolve_api, host, name, clip_indices))
Tool_add_fusion_comp_to_clip(timeline_index, track_type, track_index, item_index, outcome, okPage) ==
  Invoke("add_fusion_comp_to_clip",
         <<timeline_index, track_type, track_index, item_index, outcome, okPage>>,
         add_fusion_comp_to_clip(resolve_api, host, timeline_index, track_type, track_index,
                                 item_index, outcome, okPage))
Tool_create_fusion_node(node_type, parameters, okComp, okAdd) ==
  Invoke("create_fusion_node", <<node_type, parameters, okComp, okAdd>>,
         create_fusion_node(resolve_api, host, node_type, parameters, okComp, okAdd))
Tool_create_fusion_node_chain(node_chain, ok) ==
  Invoke("create_fusion_node_chain", <<node_chain, ok>>,
         create_fusion_node_chain(resolve_api, host, node_chain, ok))
Tool_open_page(page_name, ok) ==
  Invoke("open_page", <<page_name, ok>>, open_page(resolve_api, host, page_name, ok))
Tool_execute_python(code) ==
  Invoke("execute_python", <<code>>, execute_python(resolve_api, host, code))
Tool_execute_lua(script) ==
  Invoke("execute_lua", <<script>>, execute_lua(resolve_api, host, script))

Resources ==
  {"system://status", "project://current", "project://timelines", "timeline://current",
   "mediapool://folders", "mediapool://current", "storage://volumes"}
Tools ==
  {"create_project", "load_project", "save_project", "create_timeline",
   "set_current_timeline", "import_media", "create_folder", "create_timeline_from_clips",
   "add_fusion_comp_to_clip", "create_fusion_node", "create_fusion_node_chain", "open_page",
   "execute_python", "execute_lua"}

\* Every resource and every tool, each on a few inputs.
Init == InitWith({"p1", NULL}, {TRUE})

AllOk == [comp |-> TRUE, add |-> TRUE, connect |-> TRUE]
Node(type) == [type |-> type, name |-> "", params |-> "none"]

Next ==
  \/ Resource_system_status
  \/ Resource_project_current
  \/ Resource_project_timelines({})
  \/ Resource_timeline_current
  \/ Resource_mediapool_folders
  \/ Resource_mediapool_current
  \/ Resource_storage_volumes
  \/ \E name \in ProjNames : Tool_create_project(name)
  \/ \E name \in ProjNames : Tool_load_project(name)
  \/ \E ok \in BOOLEAN : Tool_save_project(ok)
  \/ Tool_create_timeline("t1", TRUE)
  \/ \E index \in 0..1 : Tool_set_current_timeline(index, TRUE)
  \/ \E file_paths \in {<<"a.mov">>, <<"missing.mov">>} : Tool_import_media(file_paths)
  \/ Tool_create_folder("f1")
  \/ \E clip_indices \in {<<1>>, <<2>>} : Tool_create_timeline_from_clips("t2", clip_indices)
  \/ \E item_index \in 1..2, outcome \in {"comp", "none", "raise"} :
       Tool_add_fusion_comp_to_clip(1, "video", 1, item_index, outcome, TRUE)
  \/ \E node_type \in {"Blur", "Bogus"} : Tool_create_fusion_node(node_type, "none", TRUE, TRUE)
  \/ Tool_create_fusion_node_chain(<<Node("Blur"), Node("Merge")>>, AllOk)
  \/ \E page_name \in {<<"E", "d", "i", "t">>, <<"c", "u", "t">>} : Tool_open_page(page_name, TRUE)
  \/ \E code \in {Code("assign", "resolve"), Code("assign_raise", "fusion"), Code("exit", ""),
                  Code("result", "")} :
       Tool_execute_python(code)
  \/ \E script \in LuaScripts : Tool_execute_lua(script)

Spec == Init /\ [][Next]_vars

\* Projects: created, loaded and saved, while execute_python rebinds the
\* adapter's handles or loads a project behind the adapter's back.
InitProject == InitWith({"p1", NULL}, {FALSE})

ProjectCodes ==
  {Code("assign", "resolve"), Code("assign", "project_manager"),
   Code("assign", "current_project"), Code("assign", "media_pool"),
   Code("load", "p1"), Code("load", "p2")}

NextProject ==
  \/ \E name \in ProjNames : Tool_create_project(name)
  \/ \E name \in ProjNames : Tool_load_project(name)
  \/ \E ok \in BOOLEAN : Tool_save_project(ok)
  \/ \E code \in ProjectCodes : Tool_execute_python(code)
  \/ Resource_system_status
  \/ Resource_project_current

SpecProject == InitProject /\ [][NextProject]_vars

\* Timelines: created and made current in two projects, while execute_python
\* rebinds the adapter's handles or loads a project behind the adapter's back.
InitTimeline == InitWith({"p1", NULL}, {FALSE})

TimelineCodes ==
  {Code("assign", "project_manager"), Code("assign", "current_project"),
   Code("load", "p1"), Code("load", "p2")}

NextTimeline ==
  \/ \E name \in TLNames, ok \in BOOLEAN : Tool_create_timeline(name, ok)
  \/ \E index \in 0..(MaxTimelines + 1), ok \in BOOLEAN : Tool_set_current_timeline(index, ok)
  \/ Tool_create_project("p2")
  \/ \E code \in TimelineCodes : Tool_execute_python(code)
  \/ Resource_project_timelines({})
  \/ Resource_timeline_current

SpecTimeline == InitTimeline /\ [][NextTimeline]_vars

\* Media: files imported and timelines made of clips chosen by position, while
\* execute_python rebinds the cached project and media pool.
InitMedia == InitWith({"p1", NULL}, {FALSE})

\* The lists of at most two indices from 0 to one past the most clips.
ClipIndexLists ==
  {<<>>} \cup {<<i>> : i \in 0..(MaxClips + 1)}
         \cup {<<i, j>> : i \in 0..(MaxClips + 1), j \in 0..(MaxClips + 1)}

NextMedia ==
  \/ \E file_paths \in {<<"a.mov">>, <<"missing.mov">>} : Tool_import_media(file_paths)
  \/ \E clip_indices \in ClipIndexLists : Tool_create_timeline_from_clips("t1", clip_indices)
  \/ \E code \in {Code("assign", "current_project"), Code("assign", "media_pool")} :
       Tool_execute_python(code)
  \/ Tool_load_project("p1")
  \/ Resource_mediapool_folders
  \/ Resource_mediapool_current

SpecMedia == InitMedia /\ [][NextMedia]_vars

\* Pages: open_page on names in every spelling, the host opening the page or
\* not.
InitPage == InitWith({"p1"}, {FALSE})

\* Page names as their characters: the six pages, other capitalisations of
\* them, and names that are no page.
PageNames ==
  {<<"m", "e", "d", "i", "a">>, <<"e", "d", "i", "t">>, <<"f", "u", "s", "i", "o", "n">>,
   <<"c", "o", "l", "o", "r">>, <<"f", "a", "i", "r", "l", "i", "g", "h", "t">>,
   <<"d", "e", "l", "i", "v", "e", "r">>,
   <<"E", "d", "i", "t">>, <<"F", "U", "S", "I", "O", "N">>, <<"c", "o", "L", "O", "r">>,
   <<"c", "u", "t">>, <<"e", "d", "i", "t", " ">>, <<"e", "d", "i">>, <<>>}

NextPage ==
  \/ \E page_name \in PageNames, ok \in BOOLEAN : Tool_open_page(page_name, ok)
  \/ Tool_execute_python(Code("assign", "resolve"))
  \/ Resource_system_status

SpecPage == InitPage /\ [][NextPage]_vars

\* Two runs of the server from the same start, each making calls of its own
\* (First, Second); when their hosts are in the same state both may make the
\* same call (Both), whose two outcomes are recorded for comparison.
Call(op, args) == [op |-> op, args |-> args]

\* The endpoint registered under the name, applied to the arguments
Endpoint(api, h, c) ==
  CASE c.op = "create_project" -> create_project(api, h, c.args[1])
    [] c.op = "load_project" -> load_project(api, h, c.args[1])
    [] c.op = "save_project" -> save_project(api, h, c.args[1])
    [] c.op = "create_timeline" -> create_timeline(api, h, c.args[1], c.args[2])
    [] c.op = "set_current_timeline" -> set_current_timeline(api, h, c.args[1], c.args[2])
    [] c.op = "import_media" -> import_media(api, h, c.args[1])
    [] c.op = "create_folder" -> create_folder(api, h, c.args[1])
    [] c.op = "create_timeline_from_clips" ->
         create_timeline_from_clips(api, h, c.args[1], c.args[2])
    [] c.op = "add_fusion_comp_to_clip" ->
         add_fusion_comp_to_clip(api, h, c.args[1], c.args[2], c.args[3], c.args[4],
                                 c.args[5], c.args[6])
    [] c.op = "create_fusion_node" ->
         create_fusion_node(api, h, c.args[1], c.args[2], c.args[3], c.args[4])
    [] c.op = "create_fusion_node_chain" -> create_fusion_node_chain(api, h, c.args[1], c.args[2])
    [] c.op = "open_page" -> open_page(api, h, c.args[1], c.args[2])
    [] c.op = "execute_python" -> execute_python(api, h, c.args[1])
    [] c.op = "execute_lua" -> execute_lua(api, h, c.args[1])
    [] c.op = "system://status" -> get_system_status(api, h)
    [] c.op = "project://current" -> get_current_project(api, h)
    [] c.op = "project://timelines" -> get_project_timelines(api, h, {})
    [] c.op = "timeline://current" -> get_current_timeline(api, h)
    [] c.op = "mediapool://folders" -> get_media_pool_folders(api, h)
    [] c.op = "mediapool://current" -> get_current_media_pool_folder(api, h)
    [] c.op = "storage://volumes" -> get_mounted_volumes(api, h)

Outcome(c, r) ==
  [op |-> c.op, args |-> c.args, ret |-> r.ret, exc |-> r.exc, calls |-> r.calls]

\* Every tool and every resource, each on one or two inputs.
PairCalls ==
  {Call("create_project", <<"p2">>), Call("load_project", <<"p1">>),
   Call("load_project", <<"p2">>), Call("save_project", <<TRUE>>),
   Call("create_timeline", <<"t1", TRUE>>), Call("set_current_timeline", <<1, TRUE>>),
   Call("import_media", << <<"a.mov">> >>), Call("create_folder", <<"f1">>),
   Call("create_timeline_from_clips", <<"t2", <<1>> >>),
   Call("add_fusion_comp_to_clip", <<1, "video", 1, 1, "comp", TRUE>>),
   Call("create_fusion_node", <<"Blur", "none", TRUE, TRUE>>),
   Call("create_fusion_node_chain", << <<Node("Blur")>>, AllOk>>),
   Call("open_page", << <<"e", "d", "i", "t">>, TRUE>>),
   Call("execute_python", <<Code("assign", "current_project")>>),
   Call("execute_python", <<Code("assign", "project_manager")>>),
   Call("execute_lua", <<"return 1">>)}
  \cup {Call(op, <<>>) : op \in Resources}

InitPair ==
  \E app \in {"Resolve", NULL}, current \in {"p1", NULL} :
    /\ host = HostAtStart(current, FALSE)
    /\ resolve_api = connect_to_resolve(app, host)
    /\ last = NoCall
    /\ twin = [NoTwin EXCEPT !.api = resolve_api, !.host = host]
    /\ process = ProcessAfter(app)

\* execute_python is among the calls made before the one being made.
ExecBefore(c) ==
  twin.exec \/ last.op = "execute_python" \/ twin.last.op = "execute_python"

\* The first run makes a call of its own.
First(c) ==
  LET r == Endpoint(resolve_api, host, c)
  IN /\ twin.n1 < MaxCalls
     /\ Bounded(r.host)
     /\ resolve_api' = r.api
     /\ host' = r.host
     /\ last' = NoCall
     /\ process' = process
     /\ twin' = [twin EXCEPT !.last = NoCall, !.both = FALSE, !.n1 = @ + 1,
                             !.exec = ExecBefore(c) \/ c.op = "execute_python"]

\* The second run makes a call of its own.
Second(c) ==
  LET r == Endpoint(twin.api, twin.host, c)
  IN /\ twin.n2 < MaxCalls
     /\ Bounded(r.host)
     /\ UNCHANGED <<resolve_api, host>>
     /\ last' = NoCall
     /\ process' = process
     /\ twin' = [twin EXCEPT !.api = r.api, !.host = r.host, !.last = NoCall,
                             !.both = FALSE, !.n2 = @ + 1,
                             !.exec = ExecBefore(c) \/ c.op = "execute_python"]

\* The hosts being in the same state, both runs make the same call.
Both(c) ==
  LET r1 == Endpoint(resolve_api, host, c)
      r2 == Endpoint(twin.api, twin.host, c)
  IN /\ host = twin.host
     /\ twin.n1 <= MaxCalls /\ twin.n2 <= MaxCalls
     /\ Bounded(r1.host) /\ Bounded(r2.host)
     /\ resolve_api' = r1.api
     /\ host' = r1.host
     /\ last' = Outcome(c, r1)
     /\ process' = process
     /\ twin' = [twin EXCEPT !.api = r2.api, !.host = r2.host, !.last = Outcome(c, r2),
                             !.both = TRUE, !.n1 = @ + 1, !.n2 = @ + 1,
                             !.exec = ExecBefore(c)]

NextPair ==
  \/ \E c \in PairCalls : First(c)
  \/ \E c \in PairCalls : Second(c)
  \/ \E c \in PairCalls : Both(c)

SpecPair == InitPair /\ [][NextPair]_vars

\* Node chains: create_fusion_node_chain on chains of entries with and without
\* a type, a name and parameters, while the host's Fusion calls answer or fail.
InitChain == InitWith({"p1"}, {TRUE, FALSE})

NodeInfos ==
  {Node(""), Node("Bogus"), Node("Blur"), Node("Merge"),
   [type |-> "Blur", name |-> "", params |-> "str"],
   [type |-> "Merge", name |-> "", params |-> "dict"],
   [type |-> "Blur", name |-> "blur1", params |-> "none"]}

\* node_chain: the lists of at most MaxNodes entries
NodeChains == UNION {[1..n -> NodeInfos] : n \in 0..MaxNodes}

\* The host's Fusion calls all answer, or one kind of them fails.
FusionAnswers ==
  {AllOk, [AllOk EXCEPT !.comp = FALSE], [AllOk EXCEPT !.add = FALSE],
   [AllOk EXCEPT !.connect = FALSE]}

NextChain ==
  \E node_chain \in NodeChains, ok \in FusionAnswers :
    Tool_create_fusion_node_chain(node_chain, ok)

SpecChain == InitChain /\ [][NextChain]_vars

\* Compositions on clips: media imported and laid on timelines, then
\* add_fusion_comp_to_clip on valid and invalid positions while the host's
\* AddFusionComp() and OpenPage() answer or fail.
InitComp == InitWith({"p1", NULL}, {FALSE})

TrackTypes == {"video", "audio", "subtitle", "title"}

\* timeline_index, track_type, track_index, item_index: each argument over its
\* range beside valid others, and positions that fail more than one check.
CompPositions ==
  {<<timeline_index, "video", 1, 1>> : timeline_index \in 0..MaxTimelines + 1}
  \cup {<<1, track_type, 1, 1>> : track_type \in TrackTypes}
  \cup {<<1, "video", track_index, 1>> : track_index \in 0..2}
  \cup {<<1, "video", 1, item_index>> : item_index \in 0..MaxClips + 1}
  \cup {<<0, "title", 0, 0>>, <<1, "title", 0, 0>>, <<1, "audio", 0, 0>>, <<1, "audio", 1, 0>>,
        <<2, "video", 1, 2>>}

\* AddFusionComp() returns the composition, None or raises; OpenPage() opens
\* the page or not.
CompAnswers == {<<"comp", TRUE>>, <<"comp", FALSE>>, <<"none", TRUE>>, <<"raise", TRUE>>}

NextComp ==
  \/ Tool_import_media(<<"a.mov">>)
  \/ \E clip_indices \in {<<1>>, <<1, 1>>} : Tool_create_timeline_from_clips("t1", clip_indices)
  \/ Tool_create_timeline("t2", TRUE)
  \/ \E pos \in CompPositions, answer \in CompAnswers :
       Tool_add_fusion_comp_to_clip(pos[1], pos[2], pos[3], pos[4], answer[1], answer[2])

SpecComp == InitComp /\ [][NextComp]_vars

\* Construction: the server is started on each system, with the scripting
\* module in some directories, a search path that names some of them, the host
\* running or not and a project open or not; resolve_api = ResolveAPI() is
\* then run, and run again as when the module is loaded anew.
SearchPaths(system) ==
  {<<>>, <<SitePath>>} \cup {<<d>> : d \in ModuleDirectories(system)}
  \cup {<<SitePath, d>> : d \in ModuleDirectories(system)}

InitConnect ==
  \E system \in Systems, running \in {"Resolve", NULL}, current \in {"p1", NULL} :
  \E sys_path \in SearchPaths(system),
     installed \in SUBSET (ModuleDirectories(system) \cup {SitePath}) :
    /\ process = [system |-> system, sys_path |-> sys_path, installed |-> installed,
                  running |-> running]
    /\ host = HostAtStart(current, FALSE)
    /\ resolve_api = NoHandles
    /\ last = NoCall
    /\ twin = NoTwin

\* resolve_api = ResolveAPI()
Construct ==
  LET r == ResolveAPI_init(process, host)
  IN /\ resolve_api' = r.api
     /\ process' = r.process
     /\ last' = [NoCall EXCEPT !.op = "ResolveAPI"]
     /\ UNCHANGED <<host, twin>>

SpecConnect == InitConnect /\ [][Construct]_vars

\* execute_python: code that rebinds or deletes the names of the handles,
\* sets them on the adapter object, raises, or reaches the host.
InitExec == InitWith({"p1", NULL}, {FALSE})

ExecCodes ==
  {Code(kind, name) :
     kind \in {"assign", "del", "assign_raise", "set", "set_raise", "set_del"},
     name \in HandleNames}
  \cup {Code("pass", ""), Code("exit", ""), Code("result", ""), Code("load", "p2"),
        Code("call", "p1"), Code("call", "p2")}

NextExec == \E code \in ExecCodes : Tool_execute_python(code)

SpecExec == InitExec /\ [][NextExec]_vars

\* The list of timelines: timelines are created, the handles rebound and a
\* project loaded behind the adapter, and project://timelines is read while
\* the host answers for every index or not.
NextListing ==
  \/ \E name \in TLNames : Tool_create_timeline(name, TRUE)
  \/ \E code \in TimelineCodes : Tool_execute_python(code)
  \/ \E gone \in SUBSET (1..MaxTimelines) : Resource_project_timelines(gone)

SpecListing == InitTimeline /\ [][NextListing]_vars

\* ------------------------------------------------------------ host calls
\* The host calls of an invocation that are calls of name
CallsOf(name, calls) == SelectSeq(calls, LAMBDA c : c[1] = name)

\* The SaveProject calls among the host calls of an invocation
SaveCalls(calls) == CallsOf("SaveProject", calls)

\* ------------------------------------------------------------------ C1
\* C1: a resource endpoint, invoked in any reachable state, leaves the host
\* application's state as it was: the projects, the current project, the
\* timelines and current timelines, the media pool folders and clips, the open
\* page and the Fusion composition.
C1_ResourcesReadOnly == [][last'.op \in Resources => host' = host]_vars

\* A resource answered about an open project that holds a timeline.
C1_Witness ==
  /\ last.op \in Resources
  /\ last.calls # <<>>
  /\ host.current # NULL
  /\ host.timelines[host.current] # <<>>

\* ------------------------------------------------------------------ C2
\* C2: invoked while the resolve handle is None, every tool and every resource
\* but system://status returns exactly "Error: Not connected to DaVinci
\* Resolve.", system://status returns the status text that says "Connection:
\* Not connected", no call into the host is made and the six handles keep
\* their values.
C2_NotConnected ==
  [][resolve_api.resolve = NULL =>
       /\ last'.exc = ""
       /\ last'.ret = IF last'.op = "system://status" THEN StatusNotConnected
                      ELSE NotConnected
       /\ last'.calls = <<>>
       /\ host' = host
       /\ resolve_api' = resolve_api]_vars

\* A tool was refused while resolve was None and the other handles were live.
C2_Witness ==
  /\ resolve_api.resolve = NULL
  /\ resolve_api.project_manager # NULL
  /\ resolve_api.current_project # NULL
  /\ last.op \in Tools \ {"execute_python"}
  /\ last.ret = NotConnected

\* ------------------------------------------------------------------ C3
\* The two runs got the same response to the compared call and their hosts
\* are in the same state after it, the same project saved or none.
SameOutcome ==
  /\ last.ret = twin.last.ret
  /\ last.exc = twin.last.exc
  /\ host = twin.host
  /\ SaveCalls(last.calls) = SaveCalls(twin.last.calls)

C4_ToolsReturnText == last.op \in Tools => last.exc = "" /\ last.ret # ""

\* ------------------------------------------------------------------ C5
\* A connected adapter is asked to make the timeline at an index current while
\* the host has a project open.
SetTimelineStep ==
  last'.op = "set_current_timeline" /\ resolve_api.resolve # NULL /\ host.current # NULL

\* "Successfully set current timeline to '<name>'."
SetTimelineSuccess(name) == "Successfully set current timeline to '" \o name \o "'."

\* What the claim says of such a step, N being the number of timelines of the
\* host's current project: an index outside 1..N gets "Invalid timeline index.
\* Valid range is 1-N." and no project's current timeline changes; an index
\* within 1..N, when the success message is returned, leaves the timeline at
\* that index the current timeline of the host's current project.
TimelineSet ==
  LET index == last'.args[1]
      N == Len(host.timelines[host.current])
  IN IF index < 1 \/ index > N
     THEN /\ last'.ret = "Invalid timeline index. Valid range is 1-" \o ToString(N) \o "."
          /\ host'.curTL = host.curTL
     ELSE last'.ret \in {SetTimelineSuccess(name) : name \in TLNames} =>
            /\ host'.current = host.current
            /\ host'.curTL[host.current] = host.timelines[host.current][index].name

\* C5 as stated: set_current_timeline(index) with a project open and N
\* timelines rejects an index outside 1..N with the range message, leaving the
\* host's current timeline unchanged, and after its success message the host's
\* current timeline is the timeline at that index.
C5_SetCurrentTimeline == [][SetTimelineStep => TimelineSet]_vars

\* C5, amended: the same, provided the adapter's project_manager handle is
\* set; without it the tool works on its cached current project.
C5_SetCurrentTimelineWithManager ==
  [][SetTimelineStep /\ resolve_api.project_manager # NULL => TimelineSet]_vars

\* The second of two timelines was made current.
C5_Witness ==
  /\ last.op = "set_current_timeline"
  /\ last.args[1] = 2
  /\ last.ret = SetTimelineSuccess("t1")
  /\ resolve_api.project_manager # NULL
  /\ host.current # NULL
  /\ host.curTL[host.current] = "t1"

\* ------------------------------------------------------------------ C6
\* A connected adapter is asked for a timeline of clips and gets as far as the
\* clips of the current folder.
FromClipsStep ==
  /\ last'.op = "create_timeline_from_clips"
  /\ resolve_api.resolve # NULL
  /\ CallsOf("GetClips", last'.calls) # <<>>

\* The number of clips in the folder the invocation looked at
ClipsSeen == Len(GetClips(host, CallsOf("GetClips", last'.calls)[1][2]))

\* What the claim says of such a step, N being the number of clips in the
\* folder: with an index outside 1..N in clip_indices the invalid-index
\* message for the first of them is returned, the host is not asked for a
\* timeline and its timelines are as they were; otherwise the host is asked
\* once, for a timeline of exactly the clips at the given positions in the
\* given order, and a success message reports as many clips as clip_indices
\* has entries.
AllOrNothing ==
  LET name == last'.args[1]
      clip_indices == last'.args[2]
      media_pool == CallsOf("GetClips", last'.calls)[1][2]
      clips == GetClips(host, media_pool)
      N == Len(clips)
      bad == {i \in DOMAIN clip_indices : clip_indices[i] < 1 \/ clip_indices[i] > N}
      first == CHOOSE i \in bad : \A j \in bad : i <= j
      asked == CallsOf("CreateTimelineFromClips", last'.calls)
  IN IF bad # {}
     THEN /\ last'.ret = "Invalid clip index " \o ToString(clip_indices[first])
                          \o ". Valid range is 1-" \o ToString(N) \o "."
          /\ asked = <<>>
          /\ host'.timelines = host.timelines
     ELSE /\ asked = << <<"CreateTimelineFromClips", media_pool, name,
                           [i \in DOMAIN clip_indices |-> clips[clip_indices[i]]]>> >>
          /\ last'.ret \in {"Successfully created timeline '" \o name \o "' with "
                               \o ToString(Len(clip_indices)) \o " clips.",
                             "Failed to create timeline '" \o name \o "'."}

\* C6 as stated: create_timeline_from_clips(name, clip_indices) is
\* all-or-nothing with respect to index validation, whatever the number N of
\* clips in the current folder.
C6_AllOrNothing == [][FromClipsStep => AllOrNothing]_vars

\* C6, amended: the same when the current folder holds at least one clip; an
\* empty folder gets "No clips in the current folder." whatever clip_indices
\* is, and the host is not asked for a timeline.
C6_AllOrNothingWithClips ==
  [][FromClipsStep =>
       IF ClipsSeen >= 1 THEN AllOrNothing
       ELSE /\ last'.ret = "No clips in the current folder."
            /\ CallsOf("CreateTimelineFromClips", last'.calls) = <<>>
            /\ host'.timelines = host.timelines]_vars

\* A timeline was made of the second clip and then the first.
C6_Witness ==
  /\ last.op = "create_timeline_from_clips"
  /\ last.args[2] = <<2, 1>>
  /\ CallsOf("CreateTimelineFromClips", last.calls) # <<>>
  /\ CallsOf("CreateTimelineFromClips", last.calls)[1][4] = <<"clip2", "clip1">>
  /\ last.ret = "Successfully created timeline '" \o last.args[1] \o "' with 2 clips."

\* ------------------------------------------------------------------ C7
\* C7: the open_page tool of a connected adapter accepts exactly the names
\* media, edit, fusion, color, fairlight and deliver, compared without regard
\* to case: any other name gets the "Invalid page name" message and the host's
\* open page stays; for an accepted name the host is asked to open the
\* lower-cased name, and after a success message the host's open page is that
\* page.
C7_OpenPage ==
  [][last'.op = "open_page" /\ resolve_api.resolve # NULL =>
       LET page_name == last'.args[1]
           lowered == Str(lower(page_name))
       IN IF lowered \notin Range(ValidPages)
          THEN /\ last'.ret = "Invalid page name. Valid pages are: media, edit, fusion, "
                               \o "color, fairlight, deliver."
               /\ last'.calls = <<>>
               /\ host'.page = host.page
          ELSE /\ last'.calls = << <<"OpenPage", lowered>> >>
               /\ (last'.ret = "Successfully opened the " \o Str(capitalize(page_name))
                                \o " page."
                     => host'.page = lowered)]_vars

\* ------------------------------------------------------------------ C8
\* C8: create_project(name) and load_project(name), when the host returns a
\* project, report success and leave the adapter's cached current project
\* equal to that project and its cached media pool equal to that project's
\* media pool; when the host returns None they report failure and leave the
\* cached current project and media pool as they were.
C8_ProjectCache ==
  [][last'.op \in {"create_project", "load_project"} /\ last'.calls # <<>> =>
       LET name == last'.args[1]
           project == last'.calls[1][3]
           create == last'.op = "create_project"
       IN IF project # NULL
          THEN /\ last'.ret = IF create THEN "Successfully created project '" \o name \o "'."
                              ELSE "Successfully loaded project '" \o name \o "'."
               /\ resolve_api'.current_project = project
               /\ resolve_api'.media_pool = GetMediaPool(host', project)
          ELSE /\ last'.ret =
                    IF create
                    THEN "Failed to create project '" \o name \o "'. The project may already exist."
                    ELSE "Failed to load project '" \o name \o "'. The project may not exist."
               /\ resolve_api'.current_project = resolve_api.current_project
               /\ resolve_api'.media_pool = resolve_api.media_pool]_vars

\* The host loaded a project other than the one created before it.
C8_Witness ==
  /\ last.op = "load_project"
  /\ last.calls # <<>>
  /\ last.calls[1][3] = "p1"
  /\ "p2" \in host.projects
  /\ resolve_api.media_pool = "p1"

\* ------------------------------------------------------------------ C9
\* A connected adapter is asked to save the project.
SaveProjectStep == last'.op = "save_project" /\ resolve_api.resolve # NULL

\* What the claim says of such a step: with no current project in the host the
\* tool answers "No project is currently open." and saves nothing; otherwise
\* SaveProject is invoked once, on the host's current project, the message
\* names that project, and it says success exactly when the save returned true.
SavedCurrent ==
  IF host.current = NULL
  THEN last'.ret = NoProjectOpen /\ SaveCalls(last'.calls) = <<>>
  ELSE /\ SaveCalls(last'.calls) = << <<"SaveProject", host.current>> >>
       /\ last'.ret = IF last'.args[1]
                      THEN "Successfully saved project '" \o host.current \o "'."
                      ELSE "Failed to save project '" \o host.current \o "'."

\* C9 as stated: save_project of a connected adapter saves the project that is
\* current in the host at the time of the call, also after the host's current
\* project was changed outside the adapter.
C9_SaveCurrent == [][SaveProjectStep => SavedCurrent]_vars

\* C9, amended: the same, provided the adapter's project_manager handle is
\* set; without it the tool falls back on its cached current project.
C9_SaveCurrentWithManager ==
  [][SaveProjectStep /\ resolve_api.project_manager # NULL => SavedCurrent]_vars

\* A save reached the host's current project although the adapter's cache held
\* another: the project was loaded outside the adapter.
C9_Witness ==
  /\ last.op = "save_project"
  /\ host.current = "p2"
  /\ SaveCalls(last.calls) = << <<"SaveProject", "p2">> >>
  /\ resolve_api.media_pool = "p1"

\* ----------------------------------------------------------------- C10
\* C10: create_timeline(name) of a connected adapter, when it returns
\* "Successfully created timeline 'name'.", has left a timeline of that name in
\* the host's current project and that timeline is the host's current
\* timeline; when it returns anything else the host's timelines and current
\* timelines are as they were.
C10_CreateTimeline ==
  [][last'.op = "create_timeline" /\ resolve_api.resolve # NULL =>
       LET name == last'.args[1]
       IN IF last'.ret = "Successfully created timeline '" \o name \o "'."
          THEN /\ host'.current # NULL
               /\ name \in Range(TimelineNames(host', host'.current))
               /\ host'.curTL[host'.current] = name
          ELSE /\ host'.timelines = host.timelines
               /\ host'.curTL = host.curTL]_vars

\* ------------------------------------------------------------------ C11
\* The types of the entries of node_chain at the positions S, in list order
TypesAt(node_chain, S) ==
  LET idx == SelectSeq([i \in DOMAIN node_chain |-> i], LAMBDA i : i \in S)
  IN [j \in DOMAIN idx |-> node_chain[idx[j]].type]

ChainSuccess(types) == "Successfully created node chain: " \o JoinWith(" -> ", types)

\* create_fusion_node_chain returned "Successfully created node chain: t1 ->
\* ... -> tk" for the types at the positions S of node_chain.
ChainReported(S) ==
  /\ last'.op = "create_fusion_node_chain"
  /\ S # {}
  /\ S \subseteq DOMAIN last'.args[1]
  /\ last'.ret = ChainSuccess(TypesAt(last'.args[1], S))

\* The entries of node_chain that have a type and whose node the host created
ChainCreated ==
  SelectSeq(last'.args[1], LAMBDA e : e.type # "" /\ e.type \in NodeTypes /\ last'.args[2].add)

\* Exactly the k reported nodes were added after the nodes the composition
\* had, they are the created entries in list order, the first is connected to
\* nothing and each later one to the one before it.
ChainBuilt(S) ==
  LET k == Cardinality(S)
      base == Len(host.comp.nodes)
      nodes == host'.comp.nodes
  IN /\ Len(nodes) = base + k
     /\ SubSeq(nodes, 1, base) = host.comp.nodes
     /\ Len(ChainCreated) = k
     /\ \A j \in 1..k :
          /\ nodes[base + j].type = ChainCreated[j].type
          /\ nodes[base + j].type = TypesAt(last'.args[1], S)[j]
          /\ nodes[base + j].input = IF j = 1 THEN 0 ELSE base + j - 1

\* C11: when create_fusion_node_chain returns "Successfully created node
\* chain: t1 -> ... -> tk", exactly k nodes were added to the current
\* composition, they are the entries of node_chain that have a type and whose
\* creation succeeded, in list order, the first created node receives no
\* connection and the "Input" of every later one is connected to the created
\* node before it.
C11_NodeChain ==
  [][\A S \in SUBSET (1..MaxNodes + 1) : ChainReported(S) => ChainBuilt(S)]_vars

\* ------------------------------------------------------------------ C12
\* add_fusion_comp_to_clip was invoked on a connected adapter.
CompStep == last'.op = "add_fusion_comp_to_clip" /\ resolve_api.resolve # NULL

\* The validation of add_fusion_comp_to_clip against the host before the call:
\* the messages the first failed check may give, none when every check passes.
\* p is the project the adapter works on.
CompRefusals ==
  LET timeline_index == last'.args[1]
      track_type == last'.args[2]
      track_index == last'.args[3]
      item_index == last'.args[4]
      p == IF resolve_api.project_manager # NULL THEN host.current
           ELSE resolve_api.current_project
      count == Len(host.timelines[p])
      tl == host.timelines[p][timeline_index]
      tracks == IF track_type \in {"video", "audio"} THEN 1 ELSE 0
      items == IF track_type = "video" THEN tl.items ELSE 0
  IN IF p = NULL THEN {NoProjectOpen}
     ELSE IF timeline_index \notin 1..count
     THEN {"Invalid timeline index. Valid range is 1-" \o ToString(count) \o "."}
     ELSE IF track_type \notin {"video", "audio", "subtitle"}
     THEN {"Invalid track type. Valid types are 'video', 'audio', or 'subtitle'."}
     ELSE IF track_index \notin 1..tracks
     THEN {"Invalid track index. Valid range is 1-" \o ToString(tracks) \o "."}
     ELSE IF item_index \notin 1..items
     THEN {"No items in " \o track_type \o " track " \o ToString(track_index) \o ".",
           "Invalid item index. Valid range is 1-" \o ToString(items) \o "."}
     ELSE {}

\* The item at the given position: project, timeline, 1-based position.
CompItem ==
  LET p == IF resolve_api.project_manager # NULL THEN host.current
           ELSE resolve_api.current_project
  IN <<p, host.timelines[p][last'.args[1]].name, last'.args[4]>>

\* C12: add_fusion_comp_to_clip stops at the first failed check (timeline
\* index, track type, track index, item index, in that order) with that
\* check's message; when every check passes and the host returns a
\* composition, the composition is added to the item at the given position,
\* to no other, and the host's open page is the Fusion page; in every other
\* outcome no composition is added and the open page is as it was.
C12_AddFusionComp ==
  [][CompStep =>
       IF CompRefusals # {}
       THEN /\ last'.ret \in CompRefusals
            /\ host'.itemComps = host.itemComps
            /\ host'.page = host.page
       ELSE IF last'.args[5] = "comp"
       THEN /\ host'.itemComps = host.itemComps \cup {CompItem}
            /\ host'.page = "fusion"
       ELSE /\ host'.itemComps = host.itemComps
            /\ host'.page = host.page]_vars

\* ------------------------------------------------------------------ C13
\* The host opened the page asked of the last open_page call: OpenPage() was
\* called for the lower-cased name, answered True, and that page is open.
PageOpened ==
  /\ last'.calls = << <<"OpenPage", Str(lower(last'.args[1]))>> >>
  /\ last'.args[2]
  /\ host'.page = Str(lower(last'.args[1]))

\* C13: ResolveAPI.open_page returns True if and only if the host opened the
\* requested page, so that the open_page tool of a connected adapter answers
\* "Successfully opened the <Page> page." exactly when the host's open page
\* became the requested page.
C13_OpenPageResult ==
  [][last'.op = "open_page" /\ resolve_api.resolve # NULL =>
       (last'.ret = "Successfully opened the " \o Str(capitalize(last'.args[1])) \o " page."
          <=> PageOpened)]_vars

\* ------------------------------------------------------------------ C14
\* The module directories of the system the process runs on
OwnDirectories == ModuleDirectories(process.system)

\* What construction appended to the search path
Appended == SubSeq(process'.sys_path, Len(process.sys_path) + 1, Len(process'.sys_path))

\* The search path grew by module directories of the system only, none that
\* it held already and none twice; on Darwin the per-user directory was
\* appended only after the import with the system-wide directory failed.
AppendedAtMostOnce ==
  /\ process'.sys_path = process.sys_path \o Appended
  /\ Range(Appended) \subseteq OwnDirectories \ Range(process.sys_path)
  /\ Cardinality(Range(Appended)) = Len(Appended)
  /\ UserScriptApiPath \in Range(Appended) =>
        /\ ScriptApiPath["Darwin"] \notin process.installed
        /\ Appended[Len(Appended)] = UserScriptApiPath

\* The handles of a connected and of an unconnected adapter after construction
Constructed(connected) ==
  IF connected
  THEN /\ resolve_api'.resolve = process.running
       /\ resolve_api'.project_manager = "ProjectManager"
       /\ resolve_api'.media_storage = "MediaStorage"
       /\ resolve_api'.fusion = "Fusion"
       /\ resolve_api'.current_project = host.current
       /\ resolve_api'.media_pool # NULL => host.current # NULL
  ELSE \A n \in HandleNames : resolve_api'[n] = NULL

\* C14: after constructing ResolveAPI the adapter is connected, with
\* project_manager, media_storage and fusion obtained from resolve and
\* media_pool non-null only if a project is open, when the system is Windows,
\* Darwin or Linux, the scripting module is in that system's module directory
\* (on Darwin the system-wide or the per-user one) and scriptapp returned the
\* application; otherwise all six handles are null.  The module directory is
\* appended to the search path at most once.
C14_Construction ==
  [][last'.op = "ResolveAPI" =>
       /\ Constructed(/\ OwnDirectories \cap process.installed # {}
                      /\ process.running # NULL)
       /\ AppendedAtMostOnce]_vars

\* C14 with the import as Python makes it: the scripting module is found when
\* any directory of the search path holds it, once the system's module
\* directory has been appended.
C14_ConstructionFromSearchPath ==
  [][last'.op = "ResolveAPI" =>
       /\ Constructed(/\ OwnDirectories # {}
                      /\ Range(process'.sys_path) \cap process.installed # {}
                      /\ process.running # NULL)
       /\ AppendedAtMostOnce]_vars

\* Constructed on Darwin with the module in the per-user directory only, the
\* host running and a project open: connected through the second import.
C14_Witness ==
  /\ last.op = "ResolveAPI"
  /\ process.system = "Darwin"
  /\ process.installed = {UserScriptApiPath}
  /\ process.sys_path = <<SitePath, ScriptApiPath["Darwin"], UserScriptApiPath>>
  /\ resolve_api.resolve = "Resolve"
  /\ resolve_api.media_pool = "p1"

\* ------------------------------------------------------------------ C15
\* execute_python was invoked on a connected adapter.
ExecStep == last'.op = "execute_python" /\ resolve_api.resolve # NULL

\* The code of the last execute_python call ended by raising.
CodeRaised == last'.args[1].kind \in {"assign_raise", "set_raise", "exit"}

\* What the name is bound to when the code has ended: None when the code
\* rebound it, what it was bound to at the start otherwise.
BoundAtEnd(name) ==
  IF last'.args[1].kind = "assign" /\ last'.args[1].name = name THEN NULL
  ELSE resolve_api[name]

\* C15: when the code given to execute_python finishes without raising, each
\* of the six handles equals the value bound to its name in the code's
\* namespace at the end (the previous handle when the code did not rebind the
\* name or deleted it); when the code raises, the tool returns "Error
\* executing code: ..." and the six handles are as before the call.
C15_WriteBack ==
  [][ExecStep =>
       IF CodeRaised
       THEN /\ last'.exc = ""
            /\ last'.ret = "Error executing code: boom"
            /\ resolve_api' = resolve_api
       ELSE /\ last'.exc = ""
            /\ \A name \in HandleNames : resolve_api'[name] = BoundAtEnd(name)]_vars

\* ------------------------------------------------------------------ C16
\* mediapool://current looked at the clips of a folder.
FolderStep == last'.op = "mediapool://current" /\ CallsOf("GetClips", last'.calls) # <<>>

\* The lines of the listing for the clips of that folder: the first ten at
\* most, numbered from 1 in folder order, then the count of the others.
ClipListing ==
  LET clips == GetClips(host, CallsOf("GetClips", last'.calls)[1][2])
      N == Len(clips)
      shown == IF N > 10 THEN 10 ELSE N
  IN [i \in 1..shown |-> ToString(i) \o ". " \o clips[i]]
     \o (IF N > 10 THEN <<"... and " \o ToString(N - 10) \o " more clips">> ELSE <<>>)

\* C16: mediapool://current, with N clips in the current folder, reports Clip
\* Count N and lists by name exactly the first min(N, 10) clips in folder
\* order, numbered from 1, followed when N > 10 by one line "... and (N-10)
\* more clips"; with N = 0 the clips text is "No clips in this folder.".
C16_CurrentFolderListing ==
  [][FolderStep =>
       /\ last'.exc = ""
       /\ last'.ret = "Current Folder: Master\nClip Count: " \o ToString(ClipsSeen)
                        \o "\nClips:\n"
                        \o (IF ClipsSeen = 0 THEN "No clips in this folder."
                            ELSE JoinWith("\n", ClipListing))]_vars

\* ------------------------------------------------------------------ C17
\* The line "i. name" for every timeline of the host's current project
ListedTimelines ==
  [i \in 1..Len(host.timelines[host.current]) |->
     ToString(i) \o ". " \o host.timelines[host.current][i].name]

\* C17: project://timelines of a connected adapter, with a project open and
\* N > 0 timelines in it, returns exactly one line "i. name" for every i in
\* 1..N in increasing order of i; with N = 0 it returns "No timelines in the
\* current project."; the response is never empty.
C17_TimelineListing ==
  [][last'.op = "project://timelines" /\ resolve_api.resolve # NULL =>
       /\ last'.exc = ""
       /\ last'.ret # ""
       /\ host.current # NULL =>
            last'.ret = IF ListedTimelines = <<>> THEN "No timelines in the current project."
                        ELSE JoinWith("\n", ListedTimelines)]_vars

====
